---------------------------- MODULE Spec2Model ----------------------------
(***************************************************************************)
(* A model of oauth2_provider/oauth2_validators.py (OAuth2Validator): the  *)
(* client authentication hooks, the authorization-code hooks and the       *)
(* bearer/refresh token hooks, each translated from its code.              *)
(*                                                                         *)
(* Text that the code parses (the credentials string of a Basic header,    *)
(* client ids, client secrets) is a sequence of one-character strings, so  *)
(* that split(":", 1) and unquote_plus are computed and not assumed.       *)
(***************************************************************************)
EXTENDS Integers, Sequences, FiniteSets, TLC

VARIABLES
    request,        \* the oauthlib request the client authentication hooks share
    last,           \* the last hook called on `request` and what it returned
    grants,         \* Grant rows
    now,            \* the clock, in ticks
    codes_issued,   \* authorization codes the engine has generated so far
    invalidated,    \* the Grants invalidate_authorization_code has deleted
    glast,          \* the last authorization-code hook called and its result
    access_tokens,  \* committed AccessToken rows
    refresh_tokens, \* committed RefreshToken rows
    rotate,         \* oauth2_settings.ROTATE_REFRESH_TOKEN
    seq,            \* primary keys and token strings handed out so far
    reqs,           \* per worker: the request of the token endpoint it serves
    pc,             \* per worker: its position in the request
    tx,             \* per worker: what its open transaction has written and locked
    tlast,          \* per worker: the last hook that returned, and its result
    history,        \* what the committed exchanges did: see NoHistory
    id_tokens,      \* IDToken rows
    id_issued,      \* the ID tokens get_id_token has returned
    rlast,          \* the last hook of the resource side called, and its result
    introspection   \* whether RESOURCE_SERVER_INTROSPECTION_URL and _AUTH_TOKEN are set

authVars == <<request, last>>
grantVars == <<grants, now, codes_issued, invalidated, glast>>
tokenVars == <<access_tokens, refresh_tokens, rotate, seq, reqs, pc, tx, tlast, history>>
resourceVars == <<id_tokens, id_issued, rlast, introspection>>

vars == <<request, last, grants, now, codes_issued, invalidated, glast,
          access_tokens, refresh_tokens, rotate, seq, reqs, pc, tx, tlast, history,
          id_tokens, id_issued, rlast, introspection>>

(***************************************************************************)
(* Values                                                                  *)
(***************************************************************************)
\* Python's None, for a reference (request.client, request.user, ...).
None == "None"

\* Python's None, for a text attribute (request.client_id, ...).
NoText == <<"<None>">>

\* The Application rows. The Application is immutable during a request.
AppNames == {"c1", "c2", "p1", "d1"}

CLIENT_CONFIDENTIAL == "confidential"
CLIENT_PUBLIC == "public"

Application ==
    [a \in AppNames |->
        CASE a = "c1" -> [client_id |-> <<"k">>, client_secret |-> <<"x", "+">>,
                          client_type |-> CLIENT_CONFIDENTIAL, usable |-> TRUE]
          [] a = "c2" -> [client_id |-> <<"m">>, client_secret |-> <<"x", "+">>,
                          client_type |-> CLIENT_CONFIDENTIAL, usable |-> TRUE]
          [] a = "p1" -> [client_id |-> <<"p">>, client_secret |-> <<"y">>,
                          client_type |-> CLIENT_PUBLIC, usable |-> TRUE]
          [] a = "d1" -> [client_id |-> <<"q">>, client_secret |-> <<"y">>,
                          client_type |-> CLIENT_CONFIDENTIAL, usable |-> FALSE]]

\* Application.objects.get(client_id=...): the row, or None for DoesNotExist.
ApplicationGet(client_id) ==
    IF \E a \in AppNames : Application[a].client_id = client_id
    THEN CHOOSE a \in AppNames : Application[a].client_id = client_id
    ELSE None

(***************************************************************************)
(* Text: percent-decoding and the split of the credentials string          *)
(***************************************************************************)
\* The hexadecimal digits of the model's alphabet.
HexDigits == {"2", "3", "5", "A", "B"}

\* The character a %XY escape stands for. A byte of 0x80 and above is no
\* UTF-8 text on its own: unquote decodes with errors="replace" (U+FFFD).
HexDecode(h1, h2) ==
    CASE h1 \in {"A", "B"} -> "U+FFFD"
      [] h1 = "2" /\ h2 = "2" -> "\""
      [] h1 = "2" /\ h2 = "3" -> "#"
      [] h1 = "2" /\ h2 = "5" -> "%"
      [] h1 = "2" /\ h2 = "A" -> "*"
      [] h1 = "2" /\ h2 = "B" -> "+"
      [] h1 = "3" /\ h2 = "2" -> "2"
      [] h1 = "3" /\ h2 = "3" -> "3"
      [] h1 = "3" /\ h2 = "5" -> "5"
      [] h1 = "3" /\ h2 = "A" -> ":"
      [] h1 = "3" /\ h2 = "B" -> ";"
      [] h1 = "5" /\ h2 = "2" -> "R"
      [] h1 = "5" /\ h2 = "3" -> "S"
      [] h1 = "5" /\ h2 = "5" -> "U"
      [] h1 = "5" /\ h2 = "A" -> "Z"
      [] h1 = "5" /\ h2 = "B" -> "["

\* urllib.parse.unquote: every %XY with two hex digits becomes its character,
\* any other "%" stays as it is.
RECURSIVE unquote(_)
unquote(s) ==
    IF s = <<>> THEN <<>>
    ELSE IF Head(s) = "%" /\ Len(s) >= 3 /\ s[2] \in HexDigits /\ s[3] \in HexDigits
         THEN <<HexDecode(s[2], s[3])>> \o unquote(SubSeq(s, 4, Len(s)))
         ELSE <<Head(s)>> \o unquote(Tail(s))

\* unquote_plus without the step that turns "+" into a space.
unquote_plus_no_plus(s) == unquote(s)

\* urllib.parse.unquote_plus: "+" becomes a space, then unquote.
unquote_plus(s) ==
    unquote([i \in 1..Len(s) |-> IF s[i] = "+" THEN " " ELSE s[i]])

\* The client's side of rfc 2.3.1 (application/x-www-form-urlencoded), which the
\* docstring of _authenticate_basic_auth requires of the header's credentials.
RECURSIVE quote_plus(_)
quote_plus(s) ==
    IF s = <<>> THEN <<>>
    ELSE (CASE Head(s) = " " -> <<"+">>
            [] Head(s) = "+" -> <<"%", "2", "B">>
            [] Head(s) = ":" -> <<"%", "3", "A">>
            [] Head(s) = "%" -> <<"%", "2", "5">>
            [] OTHER -> <<Head(s)>>) \o quote_plus(Tail(s))

\* The index of the first ":" of s, 0 when there is none.
RECURSIVE FirstColon(_, _)
FirstColon(s, i) ==
    IF i > Len(s) THEN 0
    ELSE IF s[i] = ":" THEN i ELSE FirstColon(s, i + 1)

\* auth_string_decoded.split(":", 1): the list of one or two parts.
split_colon(s) ==
    LET i == FirstColon(s, 1)
    IN  IF i = 0 THEN <<s>>
        ELSE <<SubSeq(s, 1, i - 1), SubSeq(s, i + 1, Len(s))>>

(***************************************************************************)
(* The Authorization header                                                *)
(*                                                                         *)
(* kind says how far the header gets through the parse:                    *)
(*   absent       no HTTP_AUTHORIZATION, or an empty one                   *)
(*   nospace      a value with no space ("Basic")                          *)
(*   other        another scheme ("Bearer abc")                            *)
(*   empty        "Basic " and nothing after it                            *)
(*   nonascii     "Basic " and a string holding a non-ASCII character      *)
(*   badpad       "Basic " and base64 of incorrect padding                 *)
(*   undecodable  "Basic " and base64 of bytes that are no text in the     *)
(*                request's charset                                        *)
(*   text         "Basic " and base64 of the text `text`                   *)
(***************************************************************************)
HeaderKinds ==
    {"absent", "nospace", "other", "empty", "nonascii", "badpad", "undecodable", "text"}

Header(kind, text) == [kind |-> kind, text |-> text]

\* _extract_basic_auth: the auth string (the header itself stands for it), or None.
extract_basic_auth(req) ==
    IF req.header.kind \in {"absent", "nospace", "other"} THEN None
    ELSE req.header.kind

\* `if not auth_string` / `if self._extract_basic_auth(request)`: the empty
\* string after "Basic " is falsy as None is.
auth_string_truthy(req) == extract_basic_auth(req) \notin {None, "empty"}

\* _load_application: [ret |-> the Application or None, client |-> request.client
\* after the call]. request.client is assigned before is_usable is asked.
load_application(client_id, client) ==
    LET found == IF client # None THEN client ELSE ApplicationGet(client_id)
    IN  IF found = None THEN [ret |-> None, client |-> client]
        ELSE IF ~Application[found].usable THEN [ret |-> None, client |-> found]
        ELSE [ret |-> found, client |-> found]

(***************************************************************************)
(* Client authentication (OAuth2Validator, lines 60-229)                   *)
(*                                                                         *)
(* A hook's result is "True", "False" or the name of the exception that    *)
(* leaves it.                                                              *)
(***************************************************************************)
Bool(b) == IF b THEN "True" ELSE "False"

\* The comparison of the loaded Application with the presented credentials,
\* lines 112-122.
basic_auth_check(client_id, client_secret, client) ==
    LET la == load_application(client_id, client)
    IN  IF la.ret = None THEN [ret |-> "False", client |-> la.client]
        ELSE IF Application[la.client].client_id # client_id
             THEN [ret |-> "False", client |-> la.client]
        ELSE IF Application[la.client].client_secret # client_secret
             THEN [ret |-> "False", client |-> la.client]
        ELSE [ret |-> "True", client |-> la.client]

\* _authenticate_basic_auth: [ret, client]. base64.b64decode raises ValueError,
\* which is neither TypeError nor binascii.Error, on a non-ASCII string; the
\* unpacking of line 110 raises ValueError when split gives one part.
authenticate_basic_auth(req) ==
    IF ~auth_string_truthy(req) THEN [ret |-> "False", client |-> req.client]
    ELSE CASE req.header.kind = "nonascii" -> [ret |-> "ValueError", client |-> req.client]
           [] req.header.kind = "badpad" -> [ret |-> "False", client |-> req.client]
           [] req.header.kind = "undecodable" -> [ret |-> "False", client |-> req.client]
           [] req.header.kind = "text" ->
                LET parts == split_colon(req.header.text)
                IN  IF Len(parts) # 2 THEN [ret |-> "ValueError", client |-> req.client]
                    ELSE basic_auth_check(unquote_plus(parts[1]), unquote_plus(parts[2]),
                                          req.client)

\* _authenticate_request_body: [ret, client].
authenticate_request_body(req) ==
    LET la == load_application(req.client_id, req.client)
    IN  IF la.ret = None THEN [ret |-> "False", client |-> la.client]
        ELSE IF Application[la.client].client_secret # req.client_secret
             THEN [ret |-> "False", client |-> la.client]
        ELSE [ret |-> "True", client |-> la.client]

\* authenticate_client that stops at Basic.
authenticate_client_basic_only(req) == authenticate_basic_auth(req)

\* authenticate_client: Basic first, the body when Basic did not authenticate.
authenticate_client(req) ==
    LET basic == authenticate_basic_auth(req)
    IN  IF basic.ret = "False"
        THEN authenticate_request_body([req EXCEPT !.client = basic.client])
        ELSE basic

\* Python's truth of a text attribute: None and the empty string are falsy.
Truthy(text) == text # NoText /\ text # <<>>

\* client_authentication_required: [ret, client]. With no client bound it ends in
\* oauthlib's RequestValidator.client_authentication_required, which returns True.
client_authentication_required(req) ==
    IF auth_string_truthy(req) THEN [ret |-> "True", client |-> req.client]
    ELSE IF Truthy(req.client_id) /\ Truthy(req.client_secret)
         THEN [ret |-> "True", client |-> req.client]
    ELSE LET la == load_application(req.client_id, req.client)
         IN  IF la.client # None
             THEN [ret |-> Bool(Application[la.client].client_type = CLIENT_CONFIDENTIAL),
                   client |-> la.client]
             ELSE [ret |-> "True", client |-> la.client]

\* authenticate_client_id that asks only whether the Application loads.
authenticate_client_id_any_type(client_id, req) ==
    LET la == load_application(client_id, req.client)
    IN  [ret |-> Bool(la.ret # None), client |-> la.client]

\* authenticate_client_id: [ret, client].
authenticate_client_id(client_id, req) ==
    LET la == load_application(client_id, req.client)
    IN  IF la.ret # None
        THEN [ret |-> Bool(Application[la.client].client_type # CLIENT_CONFIDENTIAL),
              client |-> la.client]
        ELSE [ret |-> "False", client |-> la.client]

\* validate_client_id: [ret, client].
validate_client_id(client_id, req) ==
    LET la == load_application(client_id, req.client)
    IN  [ret |-> Bool(la.ret # None), client |-> la.client]

(***************************************************************************)
(* The requests the client authentication hooks are driven with             *)
(***************************************************************************)
ClientIds == {<<"k">>, <<"m">>, <<"p">>, <<"q">>, <<"u">>}
Secrets == {<<"x", "+">>, <<"x", " ">>, <<"y">>}

\* The credentials string of rfc 2.3.1 for (client_id, client_secret).
Creds(client_id, client_secret) ==
    quote_plus(client_id) \o <<":">> \o quote_plus(client_secret)

\* The same pair joined without the form encoding.
RawCreds(client_id, client_secret) == client_id \o <<":">> \o client_secret

Headers ==
    {Header(k, <<>>) : k \in HeaderKinds \ {"text"}}
      \cup {Header("text", Creds(i, s)) : i \in ClientIds, s \in Secrets}
      \cup {Header("text", RawCreds(i, s)) : i \in ClientIds, s \in Secrets}
      \cup {Header("text", t) : t \in {<<"k">>, <<"k", "%", "3", "A", "y">>}}

Requests ==
    [header : Headers, client_id : ClientIds \cup {NoText},
     client_secret : Secrets \cup {NoText, <<>>}, client : {None}]

Raised(result) == result \notin {"True", "False", "none"}

\* One hook runs on the request; a hook that raised has ended the request.
Hook(op, out) ==
    /\ ~Raised(last.result)
    /\ request' = [request EXCEPT !.client = out.client]
    /\ last' = [op |-> op, result |-> out.ret, pre_client |-> request.client]
    /\ UNCHANGED <<grantVars, tokenVars, resourceVars>>

ClientAuthenticationRequired ==
    Hook("client_authentication_required", client_authentication_required(request))

AuthenticateClient == Hook("authenticate_client", authenticate_client(request))

\* oauthlib calls it with the request's client_id.
AuthenticateClientId ==
    Hook("authenticate_client_id", authenticate_client_id(request.client_id, request))

ValidateClientId ==
    Hook("validate_client_id", validate_client_id(request.client_id, request))

\* No request is being authenticated.
InitAuth ==
    /\ request = [header |-> Header("absent", <<>>), client_id |-> NoText,
                  client_secret |-> NoText, client |-> None]
    /\ last = [op |-> "none", result |-> "none", pre_client |-> None]

\* The protocol engine has built a request; no hook has run on it yet.
InitRequest ==
    /\ request \in Requests
    /\ last = [op |-> "none", result |-> "none", pre_client |-> None]

(***************************************************************************)
(* Authorization codes (OAuth2Validator, lines 238-243, 359-369, 414-420)  *)
(***************************************************************************)
\* How many ticks the clock runs, and how many codes the engine generates.
MaxTime == 3
MaxCodes == 2

\* oauth2_settings.AUTHORIZATION_CODE_EXPIRE_SECONDS, in ticks.
AUTHORIZATION_CODE_EXPIRE_SECONDS == 2

Users == {"alice", "bob"}

\* What the authorization requests that reach save_authorization_code carry:
\* request.client, request.user, request.redirect_uri, request.scopes.
AuthorizationRequests ==
    {[client |-> "c1", user |-> "alice", redirect_uri |-> "u1", scopes |-> <<"read">>],
     [client |-> "p1", user |-> "bob", redirect_uri |-> "u2", scopes |-> <<"read", "write">>],
     [client |-> "c1", user |-> "bob", redirect_uri |-> "u2", scopes |-> <<"read", "write">>]}

\* The clients that present a code.
GrantClients == {"c1", "p1"}

\* Grant.objects.filter(code=code, application=client): the matching rows, at
\* most one as Grant.code is unique. Grant.objects.get raises Grant.DoesNotExist
\* when there is none.
GrantRows(code, client) == {g \in grants : g.code = code /\ g.application = client}

\* Grant.is_expired
is_expired(g) == now >= g.expires

\* A validate_code that does not look at the expiry.
validate_code_any_time(code, client) ==
    LET rows == GrantRows(code, client)
        grant == CHOOSE g \in rows : TRUE
    IN  IF rows = {} THEN [ret |-> "False", scopes |-> <<>>, user |-> None]
        ELSE [ret |-> "True", scopes |-> grant.scope, user |-> grant.user]

\* " ".join(request.scopes) and grant.scope.split(" ") are kept as the list of
\* scope names: the join and the split undo each other on names without spaces.
\* validate_code: [ret, scopes, user].
validate_code(code, client) ==
    LET rows == GrantRows(code, client)
        grant == CHOOSE g \in rows : TRUE
    IN  IF rows = {} THEN [ret |-> "False", scopes |-> <<>>, user |-> None]
        ELSE IF ~is_expired(grant)
             THEN [ret |-> "True", scopes |-> grant.scope, user |-> grant.user]
        ELSE [ret |-> "False", scopes |-> <<>>, user |-> None]

\* The redirect URIs presented at the token endpoint, and the ones the
\* Applications have registered.
RedirectUris == {"u1", "u2"}

redirect_uris(client) == IF client = "c1" THEN {"u1", "u2"} ELSE {"u2"}

\* Grant.redirect_uri_allowed(uri)
redirect_uri_allowed(grant, uri) == uri = grant.redirect_uri

\* What the docstring of confirm_redirect_uri says: the redirect_uri is listed
\* in the redirect_uris of the Application.
confirm_redirect_uri_registered(code, redirect_uri, client) ==
    IF GrantRows(code, client) = {} THEN "DoesNotExist"
    ELSE Bool(redirect_uri \in redirect_uris(client))

\* confirm_redirect_uri: Grant.objects.get raises Grant.DoesNotExist when no row
\* matches.
confirm_redirect_uri(code, redirect_uri, client) ==
    LET rows == GrantRows(code, client)
        grant == CHOOSE g \in rows : TRUE
    IN  IF rows = {} THEN "DoesNotExist"
        ELSE Bool(redirect_uri_allowed(grant, redirect_uri))

ConfirmRedirectUri ==
    /\ \E code \in codes_issued, client \in GrantClients, redirect_uri \in RedirectUris :
        glast' = [op |-> "confirm_redirect_uri", code |-> code, client |-> client,
                  result |-> confirm_redirect_uri(code, redirect_uri, client),
                  redirect_uri |-> redirect_uri, bound |-> <<>>]
    /\ UNCHANGED <<grants, now, codes_issued, invalidated, authVars, tokenVars,
                   resourceVars>>

\* A grant.delete() that deletes nothing.
grant_delete_kept(grant) == grants

\* The Grant rows after grant.delete().
grant_delete(grant) == grants \ {grant}

\* invalidate_authorization_code: Grant.objects.get raises Grant.DoesNotExist
\* when no row matches, else the row is deleted.
InvalidateAuthorizationCode ==
    \E code \in codes_issued, client \in GrantClients :
        LET rows == GrantRows(code, client)
            grant == CHOOSE g \in rows : TRUE
        IN  /\ IF rows = {}
               THEN /\ grants' = grants
                    /\ invalidated' = invalidated
                    /\ glast' = [op |-> "invalidate_authorization_code", code |-> code,
                                 client |-> client, result |-> "DoesNotExist",
                                 redirect_uri |-> None, bound |-> <<>>]
               ELSE /\ grants' = grant_delete(grant)
                    /\ invalidated' = invalidated \cup {grant}
                    /\ glast' = [op |-> "invalidate_authorization_code", code |-> code,
                                 client |-> client, result |-> "None",
                                 redirect_uri |-> None, bound |-> <<>>]
            /\ UNCHANGED <<now, codes_issued, authVars, tokenVars, resourceVars>>

\* save_authorization_code: the engine generates the code (oauthlib's
\* generate_token), a string it has not handed out before.
SaveAuthorizationCode ==
    /\ Cardinality(codes_issued) < MaxCodes
    /\ \E req \in AuthorizationRequests :
        LET code == Cardinality(codes_issued) + 1
            g == [application |-> req.client, user |-> req.user, code |-> code,
                  expires |-> now + AUTHORIZATION_CODE_EXPIRE_SECONDS,
                  redirect_uri |-> req.redirect_uri, scope |-> req.scopes]
        IN  /\ grants' = grants \cup {g}
            /\ codes_issued' = codes_issued \cup {code}
            /\ glast' = [op |-> "save_authorization_code", code |-> code,
                         client |-> req.client, result |-> "None",
                         redirect_uri |-> None, bound |-> <<>>]
    /\ UNCHANGED <<now, invalidated, authVars, tokenVars, resourceVars>>

ValidateCode ==
    /\ \E code \in codes_issued, client \in GrantClients :
        LET v == validate_code(code, client)
        IN  glast' = [op |-> "validate_code", code |-> code, client |-> client,
                      result |-> v.ret, redirect_uri |-> None,
                      bound |-> IF v.ret = "True"
                                THEN [scopes |-> v.scopes, user |-> v.user] ELSE <<>>]
    /\ UNCHANGED <<grants, now, codes_issued, invalidated, authVars, tokenVars, resourceVars>>

\* Time passes.
Tick ==
    /\ now < MaxTime
    /\ now' = now + 1
    /\ UNCHANGED <<grants, codes_issued, invalidated, glast, authVars, tokenVars, resourceVars>>

InitGrant ==
    /\ grants = {}
    /\ now = 0
    /\ codes_issued = {}
    /\ invalidated = {}
    /\ glast = [op |-> "none", code |-> 0, client |-> None, result |-> "none",
                redirect_uri |-> None, bound |-> <<>>]

(***************************************************************************)
(* Bearer and refresh tokens (OAuth2Validator, lines 440-527, 569-583)     *)
(*                                                                         *)
(* Each worker serves one request of the token endpoint at a time. The     *)
(* hooks of a request run in the order the protocol engine calls them, and *)
(* save_bearer_token, which runs in a transaction, is one step per storage *)
(* statement, so that requests interleave and a worker may die inside it.  *)
(* A primary key or a token string of 0 stands for None.                   *)
(***************************************************************************)
Workers == {1, 2}

\* How many token strings the engine generates.
MaxTokens == 4

\* oauth2_settings.ACCESS_TOKEN_EXPIRE_SECONDS, in ticks.
ACCESS_TOKEN_EXPIRE_SECONDS == 2

\* The clients of the token endpoint.
TokenClients == {"c1", "p1"}

NoAccessToken ==
    [id |-> 0, token |-> 0, user |-> None, application |-> None, scope |-> None,
     expires |-> 0]

NoRefreshToken ==
    [id |-> 0, token |-> 0, user |-> None, application |-> None, access_token |-> 0]

\* The token payload oauthlib builds: 0 for a key it does not hold.
NoToken == [access_token |-> 0, refresh_token |-> 0, scope |-> None, expires_in |-> 0]

NoRequest ==
    [client |-> None, user |-> None, grant_type |-> "none", refresh_token |-> 0,
     refresh_token_instance |-> NoRefreshToken, token |-> NoToken]

\* A transaction that has written nothing: the rows it deleted, created and
\* updated, the AccessToken rows it holds locked, and the local variable
\* access_token of save_bearer_token.
NoTx ==
    [del_at |-> {}, del_rt |-> {}, new_at |-> {}, new_rt |-> {}, upd_at |-> {},
     locks |-> {}, access_token |-> NoAccessToken]

Ids(rows) == {r.id : r \in rows}

\* The AccessToken and RefreshToken rows with the writes of transaction t applied.
ApplyAT(t) ==
    {r \in access_tokens : r.id \notin t.del_at /\ r.id \notin Ids(t.upd_at)}
        \cup t.upd_at \cup t.new_at

ApplyRT(t) == {r \in refresh_tokens : r.id \notin t.del_rt} \cup t.new_rt

\* The AccessToken rows another worker's open transaction holds locked.
LockedByOthers(w) == UNION {tx[v].locks : v \in Workers \ {w}}

\* save_bearer_token without the decorator: every statement commits on its own.
transaction_autocommit == FALSE

\* @transaction.atomic on save_bearer_token.
transaction_atomic == TRUE

\* History: the refresh token strings whose rows a committed write has removed,
\* and, in the order of their commits, the primary keys of the RefreshTokens
\* that the exchanges of the reuse branch used.
NoHistory == [rotated_out |-> {}, reuses |-> <<>>]

\* The history once the RefreshToken rows are `rts`.
RotatedOut(rts) ==
    [history EXCEPT !.rotated_out =
        @ \cup {r.token : r \in {x \in refresh_tokens : x.id \notin Ids(rts)}}]

\* Worker w's transaction becomes t: its writes stay its own until the commit,
\* or, outside a transaction, reach the store at once.
Write(w, t) ==
    IF transaction_atomic
    THEN /\ tx' = [tx EXCEPT ![w] = t]
         /\ UNCHANGED <<access_tokens, refresh_tokens, history>>
    ELSE /\ access_tokens' = ApplyAT(t)
         /\ refresh_tokens' = ApplyRT(t)
         /\ history' = RotatedOut(ApplyRT(t))
         /\ tx' = [tx EXCEPT ![w] = [NoTx EXCEPT !.access_token = t.access_token]]

\* rotate_refresh_token
rotate_refresh_token == rotate

\* A validate_refresh_token that does not look at the client.
validate_refresh_token_any_client(refresh_token, client, r) ==
    LET rows == {rt \in refresh_tokens : rt.token = refresh_token}
        rt == CHOOSE x \in rows : TRUE
    IN  IF rows = {}
        THEN [ret |-> "False", user |-> r.user, refresh_token |-> r.refresh_token,
              refresh_token_instance |-> r.refresh_token_instance]
        ELSE [ret |-> "True", user |-> rt.user,
              refresh_token |-> rt.token, refresh_token_instance |-> rt]

\* validate_refresh_token: [ret, user, refresh_token, refresh_token_instance], the
\* last three what the request holds after the call.
validate_refresh_token(refresh_token, client, r) ==
    LET rows == {rt \in refresh_tokens : rt.token = refresh_token}
        rt == CHOOSE x \in rows : TRUE
    IN  IF rows = {}
        THEN [ret |-> "False", user |-> r.user, refresh_token |-> r.refresh_token,
              refresh_token_instance |-> r.refresh_token_instance]
        ELSE [ret |-> Bool(rt.application = client), user |-> rt.user,
              refresh_token |-> rt.token, refresh_token_instance |-> rt]

\* refresh_token_instance.access_token, the related row as the store holds it:
\* NoAccessToken for a null link.
related_access_token(rti) ==
    LET rows == {a \in access_tokens : a.id = rti.access_token}
    IN  IF rows = {} THEN NoAccessToken ELSE CHOOSE a \in rows : TRUE

\* A branch choice that never revokes the old pair.
save_bearer_token_branch_no_revoke(r, token) ==
    IF token.refresh_token # 0
    THEN IF /\ ~rotate_refresh_token
            /\ r.refresh_token_instance.id # 0
            /\ related_access_token(r.refresh_token_instance).id # 0
         THEN "reuse_get"
         ELSE "create_at"
    ELSE "create_at"

\* Lines 468-513, where save_bearer_token goes after its entry: the reuse branch,
\* the revocation of the rotate branch, or the creation of the access token.
save_bearer_token_branch(r, token) ==
    IF token.refresh_token # 0
    THEN IF /\ ~rotate_refresh_token
            /\ r.refresh_token_instance.id # 0
            /\ related_access_token(r.refresh_token_instance).id # 0
         THEN "reuse_get"
         ELSE IF r.refresh_token_instance.id # 0 THEN "rotate_revoke" ELSE "create_at"
    ELSE "create_at"

\* An entry that clears request.user before it looks for the scope.
save_bearer_token_entry_late_check(r, token) ==
    LET user == IF r.grant_type = "client_credentials" THEN None ELSE r.user
    IN  IF token.scope = None
        THEN [result |-> "FatalClientError", user |-> user, next |-> "idle"]
        ELSE [result |-> "None", user |-> user,
              next |-> save_bearer_token_branch(r, token)]

\* Lines 455-461, the entry of save_bearer_token: [result, user, next].
save_bearer_token_entry(r, token) ==
    IF token.scope = None
    THEN [result |-> "FatalClientError", user |-> r.user, next |-> "idle"]
    ELSE [result |-> "None",
          user |-> IF r.grant_type = "client_credentials" THEN None ELSE r.user,
          next |-> save_bearer_token_branch(r, token)]

\* A plain get(pk=...): the row is read and not locked.
plain_get(id) == {}

\* AccessToken.objects.select_for_update().get(pk=...): the rows it locks.
select_for_update(id) == {id}

\* A reuse that leaves the token string of the row as it was.
reuse_updated_row_old_token(row, r, token) ==
    [id |-> row.id, user |-> r.user, scope |-> token.scope,
     expires |-> now + ACCESS_TOKEN_EXPIRE_SECONDS, token |-> row.token,
     application |-> r.client]

\* Lines 483-487: the row as access_token.save() writes it.
reuse_updated_row(row, r, token) ==
    [id |-> row.id, user |-> r.user, scope |-> token.scope,
     expires |-> now + ACCESS_TOKEN_EXPIRE_SECONDS, token |-> token.access_token,
     application |-> r.client]

\* RefreshToken.revoke in transaction t: [raised, tx]. The related AccessToken is
\* revoked with the RefreshToken; when it is already gone the call raises
\* DoesNotExist and removes nothing; a RefreshToken whose link is null is
\* removed alone.
refresh_token_revoke(rti, t) ==
    IF rti.access_token = 0
    THEN [raised |-> FALSE, tx |-> [t EXCEPT !.del_rt = @ \cup {rti.id}]]
    ELSE IF rti.access_token \notin Ids(ApplyAT(t))
    THEN [raised |-> TRUE, tx |-> t]
    ELSE [raised |-> FALSE,
          tx |-> [t EXCEPT !.del_at = @ \cup {rti.access_token},
                           !.del_rt = @ \cup {rti.id},
                           !.locks = @ \cup {rti.access_token}]]

\* _create_access_token: the row with primary key id.
create_access_token(id, r, token) ==
    [id |-> id, user |-> r.user, scope |-> token.scope,
     expires |-> now + ACCESS_TOKEN_EXPIRE_SECONDS, token |-> token.access_token,
     application |-> r.client]

\* The requests of the token endpoint, as they stand once the client is
\* authenticated: request.client, request.grant_type and request.user.
TokenRequests ==
    {[NoRequest EXCEPT !.client = "c1", !.grant_type = "authorization_code",
                       !.user = "alice"],
     [NoRequest EXCEPT !.client = "c1", !.grant_type = "client_credentials",
                       !.user = "alice"],
     [NoRequest EXCEPT !.client = "p1", !.grant_type = "client_credentials"]}

NoResult == [op |-> "none", result |-> "none", token |-> 0]

\* A refresh_token request of some client arrives and validate_refresh_token
\* runs on the token string it presents.
ValidateRefreshToken(w) ==
    /\ pc[w] = "idle"
    /\ \E client \in TokenClients, refresh_token \in 1..seq.tok :
        LET r == [NoRequest EXCEPT !.client = client, !.grant_type = "refresh_token"]
            v == validate_refresh_token(refresh_token, client, r)
        IN  /\ reqs' = [reqs EXCEPT ![w] =
                            IF v.ret = "True"
                            THEN [r EXCEPT !.user = v.user,
                                           !.refresh_token = v.refresh_token,
                                           !.refresh_token_instance = v.refresh_token_instance]
                            ELSE NoRequest]
            /\ pc' = [pc EXCEPT ![w] = IF v.ret = "True" THEN "validated" ELSE "idle"]
            /\ tlast' = [tlast EXCEPT ![w] = [op |-> "validate_refresh_token",
                                              result |-> v.ret, token |-> refresh_token]]
    /\ UNCHANGED <<access_tokens, refresh_tokens, rotate, seq, tx, history,
                   authVars, grantVars, resourceVars>>

\* save_bearer_token is called, on a request whose refresh token has validated
\* or on a new request of another grant type. oauthlib has built the payload: a
\* new access token string; no refresh token for client_credentials, the
\* request's own when refresh tokens are reused, else a new string; and the
\* scope, which a payload may lack.
SaveBearerToken(w) ==
    /\ \E r \in IF pc[w] = "validated" THEN {reqs[w]}
                ELSE IF pc[w] = "idle" THEN TokenRequests ELSE {},
          has_scope \in BOOLEAN :
        LET reused == r.grant_type = "refresh_token" /\ ~rotate_refresh_token
            fresh == IF r.grant_type = "client_credentials" \/ reused THEN 1 ELSE 2
            token == [access_token |-> seq.tok + 1,
                      refresh_token |-> IF r.grant_type = "client_credentials" THEN 0
                                        ELSE IF reused THEN r.refresh_token
                                        ELSE seq.tok + 2,
                      scope |-> IF has_scope THEN "read" ELSE None,
                      expires_in |-> 0]
            entry == save_bearer_token_entry(r, token)
        IN  /\ seq.tok + fresh <= MaxTokens
            /\ seq' = [seq EXCEPT !.tok = IF entry.next = "idle" THEN @ ELSE @ + fresh]
            /\ reqs' = [reqs EXCEPT ![w] = [r EXCEPT !.user = entry.user, !.token = token]]
            /\ pc' = [pc EXCEPT ![w] = entry.next]
            /\ tlast' = [tlast EXCEPT ![w] =
                            IF entry.next = "idle"
                            THEN [op |-> "save_bearer_token", result |-> entry.result,
                                  token |-> 0]
                            ELSE NoResult]
    /\ UNCHANGED <<access_tokens, refresh_tokens, rotate, tx, history,
                   authVars, grantVars, resourceVars>>

\* Lines 480-482. The statement waits while another transaction holds the row;
\* get raises DoesNotExist, which ends the transaction, when the row is gone.
ReuseGet(w) ==
    /\ pc[w] = "reuse_get"
    /\ LET id == reqs[w].refresh_token_instance.access_token
           rows == {a \in ApplyAT(tx[w]) : a.id = id}
       IN  /\ select_for_update(id) \cap LockedByOthers(w) = {}
           /\ IF rows = {}
              THEN /\ tx' = [tx EXCEPT ![w] = NoTx]
                   /\ pc' = [pc EXCEPT ![w] = "idle"]
                   /\ reqs' = [reqs EXCEPT ![w] = NoRequest]
                   /\ tlast' = [tlast EXCEPT ![w] = [op |-> "save_bearer_token",
                                                     result |-> "DoesNotExist",
                                                     token |-> 0]]
              ELSE /\ tx' = [tx EXCEPT ![w].locks = @ \cup select_for_update(id),
                                       ![w].access_token = CHOOSE a \in rows : TRUE]
                   /\ pc' = [pc EXCEPT ![w] = "reuse_save"]
                   /\ UNCHANGED <<reqs, tlast>>
    /\ UNCHANGED <<access_tokens, refresh_tokens, rotate, seq, history,
                   authVars, grantVars, resourceVars>>

\* Lines 483-488: the row is updated in place. The UPDATE waits for the row.
ReuseSave(w) ==
    /\ pc[w] = "reuse_save"
    /\ LET row == reuse_updated_row(tx[w].access_token, reqs[w], reqs[w].token)
       IN  /\ row.id \notin LockedByOthers(w)
           /\ Write(w, [tx[w] EXCEPT !.upd_at = {row}, !.locks = @ \cup {row.id},
                                     !.access_token = row])
    /\ pc' = [pc EXCEPT ![w] = "commit"]
    /\ UNCHANGED <<rotate, seq, reqs, tlast, authVars, grantVars, resourceVars>>

\* Lines 493-499: the old pair is revoked; DoesNotExist is passed over, and
\* only a revoke that raised nothing clears request.refresh_token_instance.
RotateRevoke(w) ==
    /\ pc[w] = "rotate_revoke"
    /\ LET rti == reqs[w].refresh_token_instance
           out == refresh_token_revoke(rti, tx[w])
       IN  /\ rti.access_token \notin LockedByOthers(w)
           /\ Write(w, out.tx)
           /\ reqs' = [reqs EXCEPT ![w].refresh_token_instance =
                                    IF out.raised THEN @ ELSE NoRefreshToken]
    /\ pc' = [pc EXCEPT ![w] = "create_at"]
    /\ UNCHANGED <<rotate, seq, tlast, authVars, grantVars, resourceVars>>

\* Lines 501 and 513: _create_access_token.
CreateAccessToken(w) ==
    /\ pc[w] = "create_at"
    /\ LET row == create_access_token(seq.at + 1, reqs[w], reqs[w].token)
       IN  Write(w, [tx[w] EXCEPT !.new_at = @ \cup {row}, !.access_token = row])
    /\ seq' = [seq EXCEPT !.at = @ + 1]
    /\ pc' = [pc EXCEPT ![w] = IF reqs[w].token.refresh_token # 0 THEN "create_rt"
                               ELSE "commit"]
    /\ UNCHANGED <<rotate, reqs, tlast, authVars, grantVars, resourceVars>>

\* Lines 503-509: the new RefreshToken, linked to the new AccessToken.
CreateRefreshToken(w) ==
    /\ pc[w] = "create_rt"
    /\ LET row == [id |-> seq.rt + 1, user |-> reqs[w].user,
                   token |-> reqs[w].token.refresh_token,
                   application |-> reqs[w].client,
                   access_token |-> tx[w].access_token.id]
       IN  Write(w, [tx[w] EXCEPT !.new_rt = @ \cup {row}])
    /\ seq' = [seq EXCEPT !.rt = @ + 1]
    /\ pc' = [pc EXCEPT ![w] = "commit"]
    /\ UNCHANGED <<rotate, reqs, tlast, authVars, grantVars, resourceVars>>

\* Line 516 and the end of the atomic block: expires_in is put on the payload
\* and the transaction commits.
Commit(w) ==
    /\ pc[w] = "commit"
    /\ access_tokens' = ApplyAT(tx[w])
    /\ refresh_tokens' = ApplyRT(tx[w])
    /\ history' = [RotatedOut(ApplyRT(tx[w])) EXCEPT !.reuses =
                        IF tx[w].upd_at # {}
                        THEN Append(@, reqs[w].refresh_token_instance.id)
                        ELSE @]
    /\ tx' = [tx EXCEPT ![w] = NoTx]
    /\ reqs' = [reqs EXCEPT ![w] = NoRequest]
    /\ pc' = [pc EXCEPT ![w] = "idle"]
    /\ tlast' = [tlast EXCEPT ![w] = [op |-> "save_bearer_token", result |-> "None",
                                      token |-> 0]]
    /\ UNCHANGED <<rotate, seq, authVars, grantVars, resourceVars>>

InTransaction(w) ==
    pc[w] \in {"reuse_get", "reuse_save", "rotate_revoke", "create_at", "create_rt", "commit"}

\* The worker dies, or the request is aborted, inside save_bearer_token: the
\* store rolls the open transaction back.
Abort(w) ==
    /\ InTransaction(w)
    /\ tx' = [tx EXCEPT ![w] = NoTx]
    /\ pc' = [pc EXCEPT ![w] = "idle"]
    /\ reqs' = [reqs EXCEPT ![w] = NoRequest]
    /\ tlast' = [tlast EXCEPT ![w] = [op |-> "save_bearer_token", result |-> "aborted",
                                      token |-> 0]]
    /\ UNCHANGED <<access_tokens, refresh_tokens, rotate, seq, history,
                   authVars, grantVars, resourceVars>>

\* The store as one authorization_code exchange of c1 for alice leaves it: the
\* AccessToken with token string 1 and the RefreshToken with token string 2.
InitToken ==
    /\ access_tokens = {create_access_token(1, [client |-> "c1", user |-> "alice"],
                                            [access_token |-> 1, scope |-> "read"])}
    /\ refresh_tokens = {[id |-> 1, user |-> "alice", token |-> 2,
                          application |-> "c1", access_token |-> 1]}
    /\ rotate \in BOOLEAN
    /\ seq = [at |-> 1, rt |-> 1, tok |-> 2]
    /\ reqs = [w \in Workers |-> NoRequest]
    /\ pc = [w \in Workers |-> "idle"]
    /\ tx = [w \in Workers |-> NoTx]
    /\ tlast = [w \in Workers |-> NoResult]
    /\ history = NoHistory

\* Two refresh_token requests of c1 have validated the RefreshToken of that
\* store, with rotation on, and have entered save_bearer_token, each with the
\* payload oauthlib built for it: the token strings 3, 4 and 5, 6.
InitRotation ==
    /\ access_tokens = {create_access_token(1, [client |-> "c1", user |-> "alice"],
                                            [access_token |-> 1, scope |-> "read"])}
    /\ refresh_tokens = {[id |-> 1, user |-> "alice", token |-> 2,
                          application |-> "c1", access_token |-> 1]}
    /\ rotate = TRUE
    /\ seq = [at |-> 1, rt |-> 1, tok |-> 6]
    /\ reqs = [w \in Workers |->
                [client |-> "c1", user |-> "alice", grant_type |-> "refresh_token",
                 refresh_token |-> 2,
                 refresh_token_instance |-> [id |-> 1, user |-> "alice", token |-> 2,
                                             application |-> "c1", access_token |-> 1],
                 token |-> [access_token |-> 2 * w + 1, refresh_token |-> 2 * w + 2,
                            scope |-> "read", expires_in |-> 0]]]
    /\ pc = [w \in Workers |-> "rotate_revoke"]
    /\ tx = [w \in Workers |-> NoTx]
    /\ tlast = [w \in Workers |-> NoResult]
    /\ history = NoHistory

(***************************************************************************)
(* revoke_token                                                            *)
(*                                                                         *)
(* revoke_token runs outside a transaction: each revoke() it calls reaches *)
(* the store at once.                                                      *)
(***************************************************************************)
\* No hook of the resource side has been called.
\* `bound` is what the hook set on the request, `remote` the outcome of the
\* introspection request it made ("none" when it made none).
NoCall ==
    [op |-> "none", result |-> "none", args |-> <<>>, bound |-> <<>>, remote |-> "none"]

\* AccessToken.revoke on the store [ats, rts]: the row is removed, and the link
\* of the RefreshToken that pointed to it becomes null.
access_token_revoke(at, store) ==
    [ats |-> {a \in store.ats : a.id # at.id},
     rts |-> {IF r.access_token = at.id THEN [r EXCEPT !.access_token = 0] ELSE r :
                r \in store.rts}]

\* RefreshToken.revoke on the committed store: [raised, ats, rts].
refresh_token_revoke_now(rt) ==
    LET v == refresh_token_revoke(rt, NoTx)
    IN  [raised |-> v.raised, ats |-> ApplyAT(v.tx), rts |-> ApplyRT(v.tx)]

\* Revoke every RefreshToken of `rows`, one after the other: [raised, ats, rts].
\* Token strings are unique in a table, so `rows` holds one row at most.
refresh_tokens_revoke(rows) ==
    IF rows = {}
    THEN [raised |-> FALSE, ats |-> access_tokens, rts |-> refresh_tokens]
    ELSE refresh_token_revoke_now(CHOOSE r \in rows : TRUE)

\* Revoke every AccessToken of `rows`: [raised, ats, rts].
access_tokens_revoke(rows) ==
    IF rows = {}
    THEN [raised |-> FALSE, ats |-> access_tokens, rts |-> refresh_tokens]
    ELSE LET v == access_token_revoke(CHOOSE a \in rows : TRUE,
                                      [ats |-> access_tokens, rts |-> refresh_tokens])
         IN  [raised |-> FALSE, ats |-> v.ats, rts |-> v.rts]

\* revoke_token without the except branch: the hinted type only.
revoke_token_hinted_only(token, token_type_hint) ==
    LET ats == {a \in access_tokens : a.token = token}
        rts == {r \in refresh_tokens : r.token = token}
        v == IF token_type_hint = "refresh_token"
             THEN refresh_tokens_revoke(rts) ELSE access_tokens_revoke(ats)
    IN  [result |-> "None", ats |-> v.ats, rts |-> v.rts]

\* revoke_token: [result, ats, rts], the rows of the store after the call.
revoke_token(token, token_type_hint) ==
    LET hint == IF token_type_hint \notin {"access_token", "refresh_token"}
                THEN None ELSE token_type_hint
        token_type == IF hint = "refresh_token" THEN "RefreshToken" ELSE "AccessToken"
        ats == {a \in access_tokens : a.token = token}
        rts == {r \in refresh_tokens : r.token = token}
        first == IF token_type = "RefreshToken"
                 THEN refresh_tokens_revoke(rts) ELSE access_tokens_revoke(ats)
        found == IF token_type = "RefreshToken" THEN rts # {} ELSE ats # {}
        other == IF token_type = "RefreshToken"
                 THEN access_tokens_revoke(ats) ELSE refresh_tokens_revoke(rts)
    IN  IF found /\ ~first.raised
        THEN [result |-> "None", ats |-> first.ats, rts |-> first.rts]
        ELSE [result |-> IF other.raised THEN "DoesNotExist" ELSE "None",
              ats |-> other.ats, rts |-> other.rts]

\* The token_type_hint values of revocation requests.
TokenTypeHints == {"access_token", "refresh_token", "id_token", None}

\* The token strings the store of InitRevokeStore holds, and one it does not.
MaxRevokeToken == 6

RevokeToken ==
    \E token \in 1..MaxRevokeToken, token_type_hint \in TokenTypeHints :
        LET v == revoke_token(token, token_type_hint)
        IN  /\ access_tokens' = v.ats
            /\ refresh_tokens' = v.rts
            /\ rlast' = [op |-> "revoke_token", result |-> v.result,
                         args |-> [token |-> token, token_type_hint |-> token_type_hint],
                         bound |-> <<>>, remote |-> "none"]
            /\ UNCHANGED <<rotate, seq, reqs, pc, tx, tlast, history, id_tokens,
                           id_issued, introspection, authVars, grantVars>>

\* The store as two authorization_code exchanges of c1 for alice and one
\* client_credentials exchange of p1 leave it.
InitRevokeStore ==
    /\ access_tokens =
        {create_access_token(1, [client |-> "c1", user |-> "alice"],
                             [access_token |-> 1, scope |-> "read"]),
         create_access_token(2, [client |-> "c1", user |-> "alice"],
                             [access_token |-> 3, scope |-> "read"]),
         create_access_token(3, [client |-> "p1", user |-> None],
                             [access_token |-> 5, scope |-> "read"])}
    /\ refresh_tokens =
        {[id |-> 1, user |-> "alice", token |-> 2, application |-> "c1",
          access_token |-> 1],
         [id |-> 2, user |-> "alice", token |-> 4, application |-> "c1",
          access_token |-> 2]}
    /\ rotate \in BOOLEAN
    /\ seq = [at |-> 3, rt |-> 2, tok |-> 5]
    /\ reqs = [w \in Workers |-> NoRequest]
    /\ pc = [w \in Workers |-> "idle"]
    /\ tx = [w \in Workers |-> NoTx]
    /\ tlast = [w \in Workers |-> NoResult]
    /\ history = NoHistory

(***************************************************************************)
(* validate_bearer_token and remote introspection                          *)
(*                                                                         *)
(* The answer of the introspection endpoint is an input of the call: a     *)
(* network error, a body that is no JSON, or a JSON object. The clock of   *)
(* the server is UTC, so that datetime.now() and utcfromtimestamp agree.   *)
(***************************************************************************)
\* oauth2_settings.RESOURCE_SERVER_TOKEN_CACHING_SECONDS, in ticks.
RESOURCE_SERVER_TOKEN_CACHING_SECONDS == 2

\* The scopes of a scope string.
ScopeSet(scope) ==
    CASE scope = "read" -> {"read"}
      [] scope = "write" -> {"write"}
      [] scope = "read write" -> {"read", "write"}
      [] OTHER -> {}

\* AccessToken.is_valid(scopes): not expired, and the scopes are allowed.
access_token_is_valid(at, scopes) ==
    now < at.expires /\ scopes \subseteq ScopeSet(at.scope)

\* The outcomes of the POST: in a JSON object, exp = 0, scope = None and
\* username = None stand for a key the object does not hold.
Responses ==
    [kind : {"network_error", "not_json", "inactive"},
     username : {None}, exp : {0}, scope : {None}]
    \cup [kind : {"active"}, username : {"bob"}, exp : {0, 1, 3}, scope : {None, "read"}]
    \cup [kind : {"active"}, username : {None}, exp : {0}, scope : {"read"}]

Min(a, b) == IF a < b THEN a ELSE b

\* The expiry and the scope _get_token_from_authentication_server stores.
introspected_expires(response) ==
    LET max_caching_time == now + RESOURCE_SERVER_TOKEN_CACHING_SECONDS
    IN  IF response.exp # 0 THEN Min(response.exp, max_caching_time) ELSE max_caching_time

introspected_scope(response) == IF response.scope = None THEN "" ELSE response.scope

\* A _get_token_from_authentication_server that lets the network error out.
get_token_from_authentication_server_raising(token, response) ==
    [raised |-> response.kind \in {"network_error", "not_json"},
     access_token |-> NoAccessToken, ats |-> access_tokens]

\* _get_token_from_authentication_server: [raised, access_token, ats], the row
\* it returns (NoAccessToken for None) and the AccessToken rows after the call.
get_token_from_authentication_server(token, response) ==
    IF response.kind # "active"
    THEN [raised |-> FALSE, access_token |-> NoAccessToken, ats |-> access_tokens]
    ELSE LET rows == {a \in access_tokens : a.token = token}
             old == CHOOSE a \in rows : TRUE
             row == IF rows = {}
                    THEN [id |-> seq.at + 1, token |-> token, user |-> response.username,
                          application |-> None, scope |-> introspected_scope(response),
                          expires |-> introspected_expires(response)]
                    ELSE [old EXCEPT !.expires = introspected_expires(response),
                                     !.scope = introspected_scope(response)]
         IN  [raised |-> FALSE, access_token |-> row,
              ats |-> (access_tokens \ rows) \cup {row}]

\* What validate_bearer_token returns when it returns False.
BearerRefused(remote, ats) ==
    [ret |-> "False", bound |-> <<>>, remote |-> remote, ats |-> ats]

\* A validate_bearer_token that binds the token it found on the request before
\* it asks whether the token is valid.
BearerResultBindsFirst(access_token, scopes, remote, ats) ==
    [ret |-> Bool(access_token.id # 0 /\ access_token_is_valid(access_token, scopes)),
     bound |-> [client |-> access_token.application, user |-> access_token.user,
                scopes |-> scopes, access_token |-> access_token.id],
     remote |-> remote, ats |-> ats]

\* What it returns, the token being access_token after the lookups.
BearerResult(access_token, scopes, remote, ats) ==
    IF access_token.id # 0 /\ access_token_is_valid(access_token, scopes)
    THEN [ret |-> "True",
          bound |-> [client |-> access_token.application, user |-> access_token.user,
                     scopes |-> scopes, access_token |-> access_token.id],
          remote |-> remote, ats |-> ats]
    ELSE BearerRefused(remote, ats)

\* A validate_bearer_token that asks the introspection endpoint whatever the
\* local row says.
validate_bearer_token_always_introspect(token, scopes, response) ==
    LET v == get_token_from_authentication_server(token, response)
    IN  IF token = 0 \/ ~introspection
        THEN BearerRefused("none", access_tokens)
        ELSE BearerResult(v.access_token, scopes, response.kind, v.ats)

\* validate_bearer_token: [ret, bound, remote, ats].
validate_bearer_token(token, scopes, response) ==
    LET rows == {a \in access_tokens : a.token = token}
        local == CHOOSE a \in rows : TRUE
        v == get_token_from_authentication_server(token, response)
    IN  IF token = 0
        THEN BearerRefused("none", access_tokens)
        ELSE IF rows # {}
        THEN IF introspection /\ ~access_token_is_valid(local, scopes)
             THEN IF v.raised
                  THEN [BearerRefused(response.kind, v.ats) EXCEPT !.ret = "RequestException"]
                  ELSE BearerResult(v.access_token, scopes, response.kind, v.ats)
             ELSE BearerResult(local, scopes, "none", access_tokens)
        ELSE IF introspection
             THEN IF v.raised
                  THEN [BearerRefused(response.kind, v.ats) EXCEPT !.ret = "RequestException"]
                  ELSE BearerResult(v.access_token, scopes, response.kind, v.ats)
             ELSE BearerRefused("none", access_tokens)

\* The token strings resources are asked with: none, the one of the AccessToken
\* issued here, and one that another authorization server issued.
BearerTokens == {0, 1, 7}

\* The scopes resources require.
RequiredScopes == {{"read"}, {"write"}}

ValidateBearerToken ==
    \E token \in BearerTokens, scopes \in RequiredScopes, response \in Responses :
        LET v == validate_bearer_token(token, scopes, response)
        IN  /\ access_tokens' = v.ats
            /\ seq' = [seq EXCEPT !.at = IF Ids(v.ats) \subseteq Ids(access_tokens)
                                         THEN @ ELSE @ + 1]
            /\ rlast' = [op |-> "validate_bearer_token", result |-> v.ret,
                         args |-> [token |-> token, scopes |-> scopes],
                         bound |-> v.bound, remote |-> v.remote]
            /\ UNCHANGED <<refresh_tokens, rotate, reqs, pc, tx, tlast, history,
                           id_tokens, id_issued, introspection, authVars, grantVars>>

\* Lines 325-326 and 343: validate_bearer_token goes to the introspection
\* endpoint, for want of a local row that is valid for the scopes.
needs_introspection(token, scopes) ==
    /\ token # 0
    /\ introspection
    /\ \A a \in access_tokens : a.token = token => ~access_token_is_valid(a, scopes)

\* requests.post has been called and has not returned.
IntrospectionInFlight == rlast.op = "validate_bearer_token" /\ rlast.remote = "in flight"

\* Lines 259-262: validate_bearer_token calls requests.post, with no timeout
\* argument, and waits for it to return. It runs in no transaction of its own.
BearerPost ==
    /\ ~IntrospectionInFlight
    /\ \E token \in BearerTokens, scopes \in RequiredScopes :
        /\ needs_introspection(token, scopes)
        /\ rlast' = [op |-> "validate_bearer_token", result |-> "none",
                     args |-> [token |-> token, scopes |-> scopes],
                     bound |-> <<>>, remote |-> "in flight"]
    /\ UNCHANGED <<id_tokens, id_issued, introspection, authVars, grantVars, tokenVars>>

\* The endpoint answers, or the connection fails: requests.post returns or
\* raises, and validate_bearer_token runs to its end.
BearerResponse ==
    /\ IntrospectionInFlight
    /\ \E response \in Responses :
        LET v == validate_bearer_token(rlast.args.token, rlast.args.scopes, response)
        IN  /\ access_tokens' = v.ats
            /\ seq' = [seq EXCEPT !.at = IF Ids(v.ats) \subseteq Ids(access_tokens)
                                         THEN @ ELSE @ + 1]
            /\ rlast' = [rlast EXCEPT !.result = v.ret, !.bound = v.bound,
                                      !.remote = v.remote]
    /\ UNCHANGED <<refresh_tokens, rotate, reqs, pc, tx, tlast, history,
                   id_tokens, id_issued, introspection, authVars, grantVars>>

InitResource ==
    /\ id_tokens = {}
    /\ id_issued = {}
    /\ rlast = NoCall
    /\ introspection = TRUE

\* A resource server, with or without an introspection endpoint.
InitResourceServer ==
    /\ id_tokens = {}
    /\ id_issued = {}
    /\ rlast = NoCall
    /\ introspection \in BOOLEAN

(***************************************************************************)
(* validate_grant_type                                                     *)
(***************************************************************************)
\* GRANT_TYPE_MAPPING: the authorization_grant_type values of an Application
\* that allow each grant type of the token endpoint.
GRANT_TYPE_MAPPING ==
    [authorization_code |-> {"authorization-code", "openid-hybrid"},
     password |-> {"password"},
     client_credentials |-> {"client-credentials"},
     refresh_token |-> {"authorization-code", "password", "client-credentials"}]

\* Application.allows_grant_type(*grant_types)
allows_grant_type(authorization_grant_type, grant_types) ==
    authorization_grant_type \in grant_types

\* validate_grant_type, for the authorization_grant_type of request.client. The
\* assert statement is compiled away when Python runs optimized, and the
\* subscript of the mapping then raises KeyError.
validate_grant_type(grant_type, authorization_grant_type, optimized) ==
    IF grant_type \notin DOMAIN GRANT_TYPE_MAPPING
    THEN IF optimized THEN "KeyError" ELSE "AssertionError"
    ELSE Bool(allows_grant_type(authorization_grant_type, GRANT_TYPE_MAPPING[grant_type]))

\* The grant_type values of token requests: the four of the mapping and two
\* that it does not hold.
GrantTypes ==
    {"authorization_code", "password", "client_credentials", "refresh_token",
     "implicit", "urn:ietf:params:oauth:grant-type:device_code"}

\* AbstractApplication.GRANT_TYPES
AuthorizationGrantTypes ==
    {"authorization-code", "implicit", "password", "client-credentials", "openid-hybrid"}

\* The engine calls validate_grant_type once in a request, when the client is
\* authenticated, with the grant_type of the request; the
\* authorization_grant_type is the field of the Application row that
\* request.client holds.
ValidateGrantType ==
    /\ last.op \in {"authenticate_client", "authenticate_client_id"}
    /\ last.result = "True"
    /\ rlast = NoCall
    /\ request.client # None
    /\ \E grant_type \in GrantTypes, authorization_grant_type \in AuthorizationGrantTypes,
          optimized \in BOOLEAN :
        rlast' = [op |-> "validate_grant_type",
                  result |-> validate_grant_type(grant_type, authorization_grant_type,
                                                 optimized),
                  args |-> [grant_type |-> grant_type,
                            authorization_grant_type |-> authorization_grant_type],
                  bound |-> <<>>, remote |-> "none"]
    /\ UNCHANGED <<id_tokens, id_issued, introspection, authVars, grantVars, tokenVars>>

(***************************************************************************)
(* ID tokens (get_id_token, _save_id_token, validate_id_token)             *)
(*                                                                         *)
(* A serialized JWT is the record of its claims and its signature; the     *)
(* signature is the pair of the key that made it and the claims it was     *)
(* made over, so that verification is computed and an altered signature or *)
(* a signature of another key fails it. A claim the token does not hold is *)
(* 0; the hash of access token or code n is written n.                     *)
(***************************************************************************)
\* How many ID tokens are issued.
MaxIdTokens == 1

\* oauth2_settings.ID_TOKEN_EXPIRE_SECONDS, in ticks.
ID_TOKEN_EXPIRE_SECONDS == 1

\* oauth2_settings.RSA_PRIVATE_KEY
RSA_PRIVATE_KEY == "key"

NoClaims == [sub |-> None, aud |-> None, exp |-> 0, iat |-> 0, at_hash |-> 0, c_hash |-> 0]

\* The empty token string.
NoJwt == [claims |-> NoClaims, sig |-> [key |-> None, digest |-> NoClaims]]

\* jwt_token.make_signed_token(key); jwt_token.serialize()
make_signed_token(claims, key) == [claims |-> claims, sig |-> [key |-> key, digest |-> claims]]

\* jwt.JWT(key=key, jwt=token): "ok", or the exception of the signature check
\* or of the check of exp.
jwt_deserialize(token, key) ==
    IF token.sig # [key |-> key, digest |-> token.claims] THEN "JWException"
    ELSE IF token.claims.exp < now THEN "JWTExpired"
    ELSE "ok"

\* A request of get_id_token and the payload it comes with: 0 for a key the
\* payload does not hold. same_object tells whether request.grant_type is the
\* very object of the literal "authorization_code", which `is` compares.
IdTokenRequests ==
    [grant_type : {"authorization_code", None},
     response_type : {None, "id_token token", "code id_token", "code id_token token"},
     access_token : {0, 3}, code : {0, 1}, same_object : BOOLEAN]

\* The condition of line 632.
adds_at_hash(r) ==
    \/ (r.grant_type = "authorization_code" /\ r.same_object /\ r.access_token # 0)
    \/ r.response_type = "code id_token token"
    \/ (r.response_type = "id_token token" /\ r.access_token # 0)

\* The condition of line 641.
adds_c_hash(r) == r.response_type \in {"code id_token", "code id_token token"}

\* get_id_token for user alice and client c1: [result, token, rows], the IDToken
\* rows after the call. token["access_token"] and token["code"] raise KeyError
\* when the payload does not hold the key; the token string of an IDToken is
\* unique in the store.
get_id_token(r) ==
    LET expiration_time == now + ID_TOKEN_EXPIRE_SECONDS
        claims == [sub |-> "alice", aud |-> Application["c1"].client_id,
                   exp |-> expiration_time, iat |-> now,
                   at_hash |-> IF adds_at_hash(r) THEN r.access_token ELSE 0,
                   c_hash |-> IF adds_c_hash(r) THEN r.code ELSE 0]
        jwt_token == make_signed_token(claims, RSA_PRIVATE_KEY)
        id_token == [id |-> Cardinality(id_issued) + 1, user |-> "alice", scope |-> "openid",
                     expires |-> expiration_time, token |-> jwt_token,
                     application |-> "c1"]
    IN  IF (adds_at_hash(r) /\ r.access_token = 0) \/ (adds_c_hash(r) /\ r.code = 0)
        THEN [result |-> "KeyError", token |-> NoJwt, rows |-> id_tokens]
        ELSE IF \E row \in id_tokens : row.token = jwt_token
        THEN [result |-> "IntegrityError", token |-> NoJwt, rows |-> id_tokens]
        ELSE [result |-> "token", token |-> jwt_token, rows |-> id_tokens \cup {id_token}]

GetIdToken ==
    /\ Cardinality(id_issued) < MaxIdTokens
    /\ \E r \in IdTokenRequests :
        LET v == get_id_token(r)
        IN  /\ id_tokens' = v.rows
            /\ id_issued' = IF v.result = "token" THEN id_issued \cup {v.token} ELSE id_issued
            /\ rlast' = [op |-> "get_id_token", result |-> v.result,
                         args |-> [grant_type |-> r.grant_type,
                                   response_type |-> r.response_type,
                                   access_token |-> r.access_token, code |-> r.code],
                         bound |-> [id_token |-> v.token], remote |-> "none"]
    /\ UNCHANGED <<introspection, authVars, grantVars, tokenVars>>

\* A validate_id_token that does not verify the signature.
validate_id_token_unverified(token, scopes) ==
    LET rows == {row \in id_tokens : row.token = token}
        id_token == CHOOSE row \in rows : TRUE
    IN  IF token = NoJwt THEN [ret |-> "False", bound |-> <<>>]
        ELSE IF token.claims.exp < now THEN [ret |-> "False", bound |-> <<>>]
        ELSE IF rows = {} THEN [ret |-> "DoesNotExist", bound |-> <<>>]
        ELSE [ret |-> "True",
              bound |-> [client |-> id_token.application, user |-> id_token.user,
                         scopes |-> scopes, access_token |-> id_token.id]]

\* validate_id_token: [ret, bound]. IDToken.objects.get raises
\* IDToken.DoesNotExist when no row holds the token.
validate_id_token(token, scopes) ==
    LET rows == {row \in id_tokens : row.token = token}
        id_token == CHOOSE row \in rows : TRUE
    IN  IF token = NoJwt THEN [ret |-> "False", bound |-> <<>>]
        ELSE IF jwt_deserialize(token, RSA_PRIVATE_KEY) # "ok"
        THEN [ret |-> "False", bound |-> <<>>]
        ELSE IF rows = {} THEN [ret |-> "DoesNotExist", bound |-> <<>>]
        ELSE [ret |-> "True",
              bound |-> [client |-> id_token.application, user |-> id_token.user,
                         scopes |-> scopes, access_token |-> id_token.id]]

\* The token strings presented as ID tokens: none, the issued ones, and each of
\* them with its signature altered or made with another key.
PresentedIdTokens ==
    {NoJwt} \cup id_issued
        \cup {[t EXCEPT !.sig.digest = NoClaims] : t \in id_issued}
        \cup {make_signed_token(t.claims, "other key") : t \in id_issued}

ValidateIdToken ==
    /\ \E token \in PresentedIdTokens :
        LET v == validate_id_token(token, {"openid"})
        IN  rlast' = [op |-> "validate_id_token", result |-> v.ret,
                      args |-> [token |-> token], bound |-> v.bound, remote |-> "none"]
    /\ UNCHANGED <<id_tokens, id_issued, introspection, authVars, grantVars, tokenVars>>

\* The store deletes an IDToken row: an administrator, or the cleanup of tokens.
DeleteIdToken ==
    /\ \E row \in id_tokens : id_tokens' = id_tokens \ {row}
    /\ UNCHANGED <<id_issued, rlast, introspection, authVars, grantVars, tokenVars>>

(***************************************************************************)
(* Specifications                                                          *)
(***************************************************************************)
Init == InitAuth /\ InitGrant /\ InitToken /\ InitResource

\* A request has been built and handed to the client authentication hooks.
InitOneRequest == InitRequest /\ InitGrant /\ InitToken /\ InitResource

NextAuth ==
    \/ ClientAuthenticationRequired
    \/ AuthenticateClient
    \/ AuthenticateClientId
    \/ ValidateClientId

SpecAuth == InitOneRequest /\ [][NextAuth]_vars

NextGrant ==
    \/ SaveAuthorizationCode
    \/ ValidateCode
    \/ InvalidateAuthorizationCode
    \/ ConfirmRedirectUri
    \/ Tick

SpecGrant == Init /\ [][NextGrant]_vars

NextToken ==
    \E w \in Workers :
        \/ ValidateRefreshToken(w)
        \/ SaveBearerToken(w)
        \/ ReuseGet(w)
        \/ ReuseSave(w)
        \/ RotateRevoke(w)
        \/ CreateAccessToken(w)
        \/ CreateRefreshToken(w)
        \/ Commit(w)
        \/ Abort(w)

SpecToken == Init /\ [][NextToken]_vars

NextIdToken ==
    \/ GetIdToken
    \/ ValidateIdToken
    \/ DeleteIdToken
    \/ Tick

SpecIdToken == Init /\ [][NextIdToken]_vars

InitRotate == InitAuth /\ InitGrant /\ InitRotation /\ InitResource

\* The two exchanges run to their end; refresh_token requests go on arriving.
NextRotate ==
    \E w \in Workers :
        \/ ValidateRefreshToken(w)
        \/ RotateRevoke(w)
        \/ CreateAccessToken(w)
        \/ CreateRefreshToken(w)
        \/ Commit(w)
        \/ Abort(w)

SpecRotate == InitRotate /\ [][NextRotate]_vars

\* A resource server whose calls of the introspection endpoint are in flight
\* for as long as the endpoint takes. The clock runs on; nothing makes the
\* endpoint answer.
NextIntrospect ==
    \/ BearerPost
    \/ BearerResponse
    \/ Tick

SpecIntrospect == Init /\ [][NextIntrospect]_vars /\ WF_vars(Tick) /\ WF_vars(BearerPost)

InitRevoke == InitAuth /\ InitGrant /\ InitRevokeStore /\ InitResource

NextRevoke == RevokeToken

SpecRevoke == InitRevoke /\ [][NextRevoke]_vars

NextGrantType ==
    \/ AuthenticateClient
    \/ AuthenticateClientId
    \/ ValidateGrantType

SpecGrantType == InitOneRequest /\ [][NextGrantType]_vars

InitBearer == InitAuth /\ InitGrant /\ InitToken /\ InitResourceServer

NextBearer ==
    \/ ValidateBearerToken
    \/ Tick

SpecBearer == InitBearer /\ [][NextBearer]_vars

(***************************************************************************)
(* Properties of the authorization-code hooks (under SpecGrant)            *)
(***************************************************************************)
\* C1: authorization codes are single-use. A Grant that save_authorization_code
\* created validates for its (code, Application) until it expires; once
\* invalidate_authorization_code has deleted it, validate_code returns False for
\* that code and client in every later state, and so did the last validate_code
\* call if it was for such a pair.
C1_CodeSingleUse ==
    /\ \A g \in grants :
        now < g.expires => validate_code(g.code, g.application).ret = "True"
    /\ \A g \in invalidated : validate_code(g.code, g.application).ret = "False"
    /\ \A g \in invalidated :
        (glast.op = "validate_code" /\ glast.code = g.code /\ glast.client = g.application)
            => glast.result = "False"

\* A code was invalidated and then presented again, before the Grant would
\* have expired, and validate_code refused it.
C1_Witness ==
    \E g \in invalidated :
        /\ glast.op = "validate_code"
        /\ glast.code = g.code
        /\ glast.client = g.application
        /\ glast.result = "False"
        /\ now < g.expires

(***************************************************************************)
(* Properties of client authentication (under SpecAuth)                    *)
(***************************************************************************)
\* The header's credentials string splits in two.
BasicWellFormed(req) ==
    req.header.kind = "text" /\ Len(split_colon(req.header.text)) = 2

\* The client_id and the client_secret the header presents, percent-decoded.
BasicClientId(req) == unquote_plus(split_colon(req.header.text)[1])
BasicClientSecret(req) == unquote_plus(split_colon(req.header.text)[2])

\* The body's client_id and client_secret are those of a usable Application.
BodyCorrect(req) ==
    LET a == ApplicationGet(req.client_id)
    IN  /\ a # None
        /\ Application[a].usable
        /\ Application[a].client_secret = req.client_secret

\* The header's secret is not the secret of the Application its client_id names.
BasicWrong(req) ==
    LET a == ApplicationGet(BasicClientId(req))
    IN  a = None \/ Application[a].client_secret # BasicClientSecret(req)

\* The request names the confidential Application `a` and no other client: its
\* client_id is a's, and so is the client_id of its Basic header, if it has one.
NamesOnly(req, a) ==
    /\ Application[a].client_id = req.client_id
    /\ BasicWellFormed(req) => BasicClientId(req) = req.client_id

C7_BasicAuthIffSecretMatches ==
    \A i \in ClientIds, sec \in Secrets :
        LET a == ApplicationGet(i)
        IN  (/\ last.op = "authenticate_client"
             /\ request.header = Header("text", Creds(i, sec))
             /\ request.client_id = NoText
             /\ request.client_secret = NoText
             /\ a # None
             /\ Application[a].usable)
                => last.result = Bool(sec = Application[a].client_secret)

\* The secret of c1 was accepted from a header that had to be percent-decoded.
C7_Witness ==
    /\ last.op = "authenticate_client"
    /\ request.client_id = NoText
    /\ request.client_secret = NoText
    /\ request.header = Header("text", Creds(<<"k">>, <<"x", "+">>))
    /\ last.result = "True"
    /\ last.pre_client = None

\* C8 as the spec states it: the Basic header is well-formed and carries a wrong
\* secret, the body carries a correct client_id and secret, and authenticate_client
\* returns False.
C8_BasicWrongBodyCorrectReturnsFalse ==
    (/\ last.op = "authenticate_client"
     /\ BasicWellFormed(request)
     /\ BasicWrong(request)
     /\ BodyCorrect(request))
        => last.result = "False"

\* C8 amended: when the Basic header is well-formed, carries a wrong secret and
\* names the client_id of the body, and the body carries the correct client_id and
\* secret, authenticate_client returns True: the body is tried after Basic failed.
C8_BasicWrongBodyCorrectReturnsTrue ==
    (/\ last.op = "authenticate_client"
     /\ BasicWellFormed(request)
     /\ BasicWrong(request)
     /\ BodyCorrect(request)
     /\ BasicClientId(request) = request.client_id)
        => last.result = "True"

\* A header with a wrong secret for c1 and a body with c1's own: accepted.
C8_Witness ==
    /\ last.op = "authenticate_client"
    /\ last.pre_client = None
    /\ request.header = Header("text", Creds(<<"k">>, <<"y">>))
    /\ request.client_id = <<"k">>
    /\ request.client_secret = <<"x", "+">>
    /\ last.result = "True"

\* The header is missing or is one of the malformed values: no space, another
\* scheme, invalid base64, bytes that are no text in the charset, or credentials
\* with no ":".
BasicMalformed(req) == ~BasicWellFormed(req)

\* C9: Basic-auth extraction fails soft. For a missing or malformed header
\* authenticate_client raises nothing and returns what authentication by the body
\* returns.
C9_MalformedBasicFailsSoft ==
    (last.op = "authenticate_client" /\ BasicMalformed(request))
        => last.result
            = authenticate_request_body([request EXCEPT !.client = last.pre_client]).ret

(***************************************************************************)
(* Properties of the token hooks (under SpecToken)                         *)
(***************************************************************************)
\* Worker w's save_bearer_token returns: the step that commits its transaction.
Returns(w) == pc[w] = "commit" /\ pc'[w] = "idle" /\ tlast'[w].result = "None"

\* C2: with refresh rotation enabled, the refresh exchange that used refresh token
\* R (validate_refresh_token, then save_bearer_token) leaves no RefreshToken with
\* the string R, so that validate_refresh_token(R) returns False for every client,
\* and leaves a RefreshToken and an AccessToken that were not there before, the
\* first linked to the second; and no later validate_refresh_token accepts a
\* string that a rotation has revoked.
C2_RotationRevokesOld ==
    [][\A w \in Workers :
        /\ (Returns(w) /\ rotate /\ reqs[w].grant_type = "refresh_token")
            => /\ \A rt \in refresh_tokens' : rt.token # reqs[w].refresh_token
               /\ \A c \in TokenClients, R \in {reqs[w].refresh_token} :
                    validate_refresh_token(R, c, NoRequest)'.ret = "False"
               /\ \E at \in access_tokens', rt \in refresh_tokens' :
                    /\ at.id \notin Ids(access_tokens)
                    /\ rt.id \notin Ids(refresh_tokens)
                    /\ rt.access_token = at.id
                    /\ at.token = reqs[w].token.access_token
                    /\ rt.token = reqs[w].token.refresh_token
                    /\ rt.token # reqs[w].refresh_token
        /\ (pc[w] = "idle" /\ pc'[w] = "validated")
            => reqs'[w].refresh_token \notin history.rotated_out
      ]_vars

\* After a rotation a worker presented the revoked string again and was refused,
\* while the pair the rotation created is in the store.
C2_Witness ==
    /\ rotate
    /\ \E w \in Workers :
        /\ tlast[w].op = "validate_refresh_token"
        /\ tlast[w].result = "False"
        /\ tlast[w].token \in history.rotated_out
    /\ \E at \in access_tokens, rt \in refresh_tokens :
        rt.access_token = at.id /\ rt.id > 1 /\ at.id > 1

\* C3: with refresh rotation disabled, a refresh exchange that returns leaves the
\* RefreshToken rows as they were (the row it used among them), creates no
\* AccessToken row, and has replaced the token string of the linked AccessToken
\* by the new one; the same refresh token then validates again.
C3_ReuseKeepsRefreshToken ==
    [][\A w \in Workers :
        (Returns(w) /\ ~rotate /\ reqs[w].grant_type = "refresh_token")
            => LET rti == reqs[w].refresh_token_instance
               IN  /\ refresh_tokens' = refresh_tokens
                   /\ rti \in refresh_tokens'
                   /\ Ids(access_tokens') = Ids(access_tokens)
                   /\ \E at \in access_tokens' :
                        /\ at.id = rti.access_token
                        /\ at.token = reqs[w].token.access_token
                   /\ \A at \in access_tokens :
                        at.id = rti.access_token => at.token # reqs[w].token.access_token
                   /\ \A R \in {rti.token}, c \in {reqs[w].client} :
                        validate_refresh_token(R, c, NoRequest)'.ret = "True"
      ]_vars

\* Two exchanges with the same RefreshToken row have both returned.
C3_Witness ==
    /\ ~rotate
    /\ Len(history.reuses) >= 2
    /\ history.reuses[1] = history.reuses[2]
    /\ \E rt \in refresh_tokens : rt.id = history.reuses[1] /\ rt.token = 2

\* C4: save_bearer_token is atomic. No step inside it, and no death of the
\* worker at any point of it, leaves the store with an AccessToken that was
\* created for a payload with a refresh token but without the RefreshToken
\* linked to it, nor with the old pair revoked and no new pair: a step either
\* leaves the store as it was or is the commit of the whole call.
C4_SaveBearerTokenAtomic ==
    [][/\ \A at \in access_tokens' :
            (/\ at.id \notin Ids(access_tokens)
             /\ \E w \in Workers : /\ InTransaction(w)
                                   /\ pc'[w] # pc[w]
                                   /\ reqs[w].token.refresh_token # 0)
                => \E rt \in refresh_tokens' : rt.access_token = at.id
       /\ \A rt \in refresh_tokens :
            rt.id \notin Ids(refresh_tokens')
                => /\ rt.access_token \notin Ids(access_tokens')
                   /\ \E nat \in access_tokens', nrt \in refresh_tokens' :
                        /\ nat.id \notin Ids(access_tokens)
                        /\ nrt.id \notin Ids(refresh_tokens)
                        /\ nrt.access_token = nat.id
       /\ \A w \in Workers :
            (InTransaction(w) /\ pc'[w] # pc[w] /\ ~Returns(w))
                => (access_tokens' = access_tokens /\ refresh_tokens' = refresh_tokens)
      ]_vars

\* A worker died inside the rotate branch, after it revoked the old pair and
\* created the new AccessToken, and the store still holds the old pair only.
C4_Witness ==
    /\ rotate
    /\ \E w \in Workers : tlast[w].result = "aborted"
    /\ seq.at > 1
    /\ Ids(access_tokens) = {1}
    /\ Ids(refresh_tokens) = {1}

\* Worker w is between its locked read of the AccessToken and its commit.
InReuse(w) == pc[w] = "reuse_save" \/ (pc[w] = "commit" /\ tx[w].upd_at # {})

\* C5: in the reuse branch the row lock serializes the refresh exchanges of one
\* refresh token. While a worker is between its read of the linked AccessToken
\* and the commit of its update, no other worker is between its own read and
\* update of that row, and the row a worker is about to update is the row as the
\* store holds it, not a stale read.
C5_ReuseSerialized ==
    \A w \in Workers :
        /\ pc[w] = "reuse_save" => tx[w].access_token \in access_tokens
        /\ \A v \in Workers \ {w} :
            (InReuse(w) /\ InReuse(v)) => tx[w].access_token.id # tx[v].access_token.id

\* One worker holds the row and the other, with the same refresh token, waits
\* for it at its select_for_update.
C5_Witness ==
    \E w \in Workers, v \in Workers :
        /\ pc[w] = "reuse_save"
        /\ pc[v] = "reuse_get"
        /\ reqs[v].refresh_token_instance.access_token = tx[w].access_token.id

\* C10: save_bearer_token with a payload that lacks the scope raises
\* FatalClientError before any effect: no AccessToken or RefreshToken row is
\* created, updated or revoked, in the store or in a transaction, request.user is
\* the user the request came with, and the payload gets no expires_in.
C10_MissingScopeIsFatal ==
    [][\A w \in Workers :
        (/\ pc[w] \in {"idle", "validated"}
         /\ reqs'[w].token.access_token # 0
         /\ reqs'[w].token.scope = None
         /\ (reqs'[w] # reqs[w] \/ tlast'[w] # tlast[w] \/ pc'[w] # pc[w]))
            => /\ tlast'[w].op = "save_bearer_token"
               /\ tlast'[w].result = "FatalClientError"
               /\ pc'[w] = "idle"
               /\ access_tokens' = access_tokens
               /\ refresh_tokens' = refresh_tokens
               /\ tx' = tx
               /\ seq'.at = seq.at /\ seq'.rt = seq.rt
               /\ reqs'[w].token.expires_in = 0
               /\ \E r \in IF pc[w] = "validated" THEN {reqs[w]} ELSE TokenRequests :
                    reqs'[w] = [r EXCEPT !.token = reqs'[w].token]
      ]_vars

\* A client_credentials request that came with a user has had its payload
\* refused, and still holds the user.
C10_Witness ==
    \E w \in Workers :
        /\ tlast[w].op = "save_bearer_token"
        /\ tlast[w].result = "FatalClientError"
        /\ reqs[w].grant_type = "client_credentials"
        /\ reqs[w].user = "alice"
        /\ reqs[w].token.scope = None
        /\ reqs[w].token.expires_in = 0

(***************************************************************************)
(* Properties of revoke_token (under SpecRevoke)                           *)
(***************************************************************************)
\* C11: revoke_token(token, hint) tries the hinted type first (AccessToken for
\* a hint that is neither access_token nor refresh_token) and revokes its row
\* with that token string; when the hinted type has no such row, the rows of the
\* other type with that token string are revoked instead; when no row of either
\* type has it, the store is unchanged; and in no case is an error raised.
C11_RevokeTokenFallback ==
    [][\A a \in {rlast'.args} :
        rlast'.op = "revoke_token" =>
            LET hinted_ats == {x \in access_tokens : x.token = a.token}
                hinted_rts == {x \in refresh_tokens : x.token = a.token}
                refresh == a.token_type_hint = "refresh_token"
            IN  /\ rlast'.result = "None"
                /\ (refresh /\ hinted_rts # {})
                    => \A x \in refresh_tokens' : x.token # a.token
                /\ (~refresh /\ hinted_ats # {})
                    => \A x \in access_tokens' : x.token # a.token
                /\ (refresh /\ hinted_rts = {})
                    => \A x \in access_tokens' : x.token # a.token
                /\ (~refresh /\ hinted_ats = {})
                    => \A x \in refresh_tokens' : x.token # a.token
                /\ (hinted_ats = {} /\ hinted_rts = {})
                    => (access_tokens' = access_tokens /\ refresh_tokens' = refresh_tokens)
      ]_vars

\* The token string of RefreshToken 1 came with the hint access_token: the
\* RefreshToken and its AccessToken are gone, the other rows are there.
C11_Witness ==
    /\ rlast.op = "revoke_token"
    /\ rlast.args = [token |-> 2, token_type_hint |-> "access_token"]
    /\ rlast.result = "None"
    /\ Ids(refresh_tokens) = {2}
    /\ Ids(access_tokens) = {2, 3}

(***************************************************************************)
(* More properties of the token hooks (under SpecToken)                    *)
(***************************************************************************)
\* C12: validate_refresh_token(token, client) returns True only if a
\* RefreshToken row with that token string exists and its Application is the
\* presenting client: for every token string, known or not, and every client it
\* returns True or False, True exactly when such a row exists, so that the token
\* of Application A presented by client B is refused; and a request passes
\* validation only with the client that owns its refresh token.
C12_RefreshTokenBoundToClient ==
    /\ \A refresh_token \in 1..(MaxTokens + 1), client \in TokenClients :
        validate_refresh_token(refresh_token, client, NoRequest).ret
            = Bool(\E rt \in refresh_tokens :
                        rt.token = refresh_token /\ rt.application = client)
    /\ \A w \in Workers :
        pc[w] = "validated"
            => /\ reqs[w].refresh_token_instance.application = reqs[w].client
               /\ reqs[w].refresh_token_instance.token = reqs[w].refresh_token
               /\ reqs[w].user = reqs[w].refresh_token_instance.user

\* Nothing has happened but one validate_refresh_token, which refused the token
\* string of the RefreshToken of c1: the client that presented it was p1.
C12_Witness ==
    /\ \E w \in Workers :
        /\ tlast[w] = [op |-> "validate_refresh_token", result |-> "False", token |-> 2]
        /\ \A v \in Workers \ {w} : tlast[v] = NoResult
    /\ \E rt \in refresh_tokens : rt.token = 2 /\ rt.application = "c1"
    /\ validate_refresh_token(2, "p1", NoRequest).ret = "False"
    /\ validate_refresh_token(2, "c1", NoRequest).ret = "True"
    /\ seq.tok = 2

(***************************************************************************)
(* Properties of validate_bearer_token (under SpecBearer)                  *)
(***************************************************************************)
\* A step that is a call of validate_bearer_token: the clock stands still.
BearerCall == now' = now /\ rlast'.op = "validate_bearer_token"

\* The AccessToken rows with token string `token` that are valid for `scopes`.
ValidRows(token, scopes) ==
    {a \in access_tokens : a.token = token /\ access_token_is_valid(a, scopes)}

\* C13: validate_bearer_token fails closed on a failure of the introspection
\* endpoint. A call raises nothing; a call whose introspection request ended in a
\* network error or in a body that is no JSON returns False, binds nothing on
\* the request and leaves the AccessToken rows as they were; and a call that
\* finds the local row valid for the scopes returns True without asking.
C13_IntrospectionFailsClosed ==
    [][\A a \in {rlast'.args} :
        BearerCall =>
            /\ rlast'.result \in {"True", "False"}
            /\ rlast'.remote \in {"network_error", "not_json"}
                => /\ rlast'.result = "False"
                   /\ rlast'.bound = <<>>
                   /\ access_tokens' = access_tokens
            /\ ValidRows(a.token, a.scopes) # {}
                => /\ rlast'.result = "True"
                   /\ rlast'.remote = "none"
                   /\ access_tokens' = access_tokens
      ]_vars

\* The AccessToken issued here has expired, the introspection endpoint was asked
\* and could not be reached: the call returned False and the row is as it was.
C13_Witness ==
    /\ rlast.op = "validate_bearer_token"
    /\ rlast.args = [token |-> 1, scopes |-> {"read"}]
    /\ rlast.remote = "network_error"
    /\ rlast.result = "False"
    /\ now >= ACCESS_TOKEN_EXPIRE_SECONDS
    /\ \E a \in access_tokens :
        a.token = 1 /\ a.expires = ACCESS_TOKEN_EXPIRE_SECONDS /\ a.scope = "read"

\* The call before this one was for the same token and scopes, and stored the
\* row of an active introspection response, which has not expired.
AfterActiveIntrospection ==
    /\ BearerCall
    /\ rlast.op = "validate_bearer_token"
    /\ rlast.remote = "active"
    /\ rlast'.args = rlast.args
    /\ \E a \in access_tokens : a.token = rlast.args.token /\ now < a.expires

\* C14 as the spec states it: after a call that obtained an active response and
\* stored the row, a later call with the same token and scopes before the stored
\* expiry returns True without another introspection request.
C14_CachedAfterActiveResponse ==
    [][AfterActiveIntrospection
        => (rlast'.result = "True" /\ rlast'.remote = "none")]_vars

\* C14 amended: when that call also returned True, that is when the scope of the
\* response covers the required scopes, the later call returns True without
\* another introspection request; and so does every call that finds a row that
\* has not expired and covers the required scopes, whatever the endpoint would
\* answer.
C14_CachedAfterAcceptedResponse ==
    [][/\ (AfterActiveIntrospection /\ rlast.result = "True")
            => (rlast'.result = "True" /\ rlast'.remote = "none"
                /\ access_tokens' = access_tokens)
       /\ \A a \in {rlast'.args} :
            (BearerCall /\ ValidRows(a.token, a.scopes) # {})
                => (rlast'.result = "True" /\ rlast'.remote = "none"
                    /\ rlast'.bound.access_token \in Ids(ValidRows(a.token, a.scopes)))
      ]_vars

\* A token of another authorization server was accepted from the row that an
\* earlier introspection stored, after the clock has moved.
C14_Witness ==
    /\ rlast.op = "validate_bearer_token"
    /\ rlast.args = [token |-> 7, scopes |-> {"read"}]
    /\ rlast.result = "True"
    /\ rlast.remote = "none"
    /\ now > 0
    /\ \E a \in access_tokens :
        a.token = 7 /\ a.application = None /\ a.expires = RESOURCE_SERVER_TOKEN_CACHING_SECONDS

(***************************************************************************)
(* More properties of the authorization-code hooks (under SpecGrant)       *)
(***************************************************************************)
\* The Grant rows save_authorization_code has created, deleted since or not.
GrantsCreated == grants \cup invalidated

C18_ExpiredGrantFails ==
    /\ \A g \in grants :
        LET v == validate_code(g.code, g.application)
        IN  /\ now > g.expires => v.ret = "False"
            /\ v.ret = Bool(~is_expired(g))
            /\ v.ret = "True" => (v.scopes = g.scope /\ v.user = g.user)
    /\ glast.op = "validate_code"
        => /\ glast.result \in {"True", "False"}
           /\ glast.result = "False" => glast.bound = <<>>
           /\ glast.result = "True"
                => \E g \in GrantsCreated :
                    /\ g.code = glast.code
                    /\ g.application = glast.client
                    /\ glast.bound = [scopes |-> g.scope, user |-> g.user]

\* The Grant is in the store, its expiry is in the past, and validate_code has
\* refused its code from its own client.
C18_Witness ==
    \E g \in grants :
        /\ now > g.expires
        /\ glast.op = "validate_code"
        /\ glast.code = g.code
        /\ glast.client = g.application
        /\ glast.result = "False"
        /\ glast.bound = <<>>

(***************************************************************************)
(* Properties of validate_grant_type (under SpecGrantType)                 *)
(***************************************************************************)
\* C19: for a grant type of GRANT_TYPE_MAPPING validate_grant_type returns True
\* iff the Application holds one of the capabilities mapped to it (refresh_token:
\* authorization-code, password or client-credentials), and for any other
\* grant_type string it raises FatalClientError, the fatal error type.
C19_UnknownGrantTypeIsFatal ==
    rlast.op = "validate_grant_type"
        => IF rlast.args.grant_type = "refresh_token"
           THEN rlast.result = Bool(rlast.args.authorization_grant_type
                    \in {"authorization-code", "password", "client-credentials"})
           ELSE IF rlast.args.grant_type = "authorization_code"
           THEN rlast.result = Bool(rlast.args.authorization_grant_type
                    \in {"authorization-code", "openid-hybrid"})
           ELSE IF rlast.args.grant_type = "password"
           THEN rlast.result = Bool(rlast.args.authorization_grant_type = "password")
           ELSE IF rlast.args.grant_type = "client_credentials"
           THEN rlast.result
                    = Bool(rlast.args.authorization_grant_type = "client-credentials")
           ELSE rlast.result = "FatalClientError"


\* A step of validate_id_token.
IdTokenCall == now' = now /\ id_tokens' = id_tokens /\ rlast'.op = "validate_id_token"

\* C15: a token get_id_token returns validates at once, and at any time up to
\* its expiry while its row exists, with the client and the user of its row
\* bound to the request; a token whose signature does not verify with the
\* configured key is refused with False.
C15_IdTokenRoundTrip ==
    [][/\ \A t \in id_issued' \ id_issued : \A row \in {r \in id_tokens' : r.token = t} :
            /\ validate_id_token(t, {"openid"})'.ret = "True"
            /\ validate_id_token(t, {"openid"})'.bound.client = row.application
            /\ validate_id_token(t, {"openid"})'.bound.user = row.user
       /\ IdTokenCall =>
            /\ \A row \in id_tokens :
                (rlast'.args.token = row.token /\ now <= row.token.claims.exp) =>
                    /\ rlast'.result = "True"
                    /\ rlast'.bound.client = row.application
                    /\ rlast'.bound.user = row.user
            /\ (rlast'.args.token # NoJwt
                    /\ rlast'.args.token.sig
                        # [key |-> RSA_PRIVATE_KEY, digest |-> rlast'.args.token.claims]) =>
                    rlast'.result = "False"]_vars

\* An issued token was validated while its row existed, one tick after its issue.
C15_Witness ==
    /\ rlast.op = "validate_id_token"
    /\ rlast.result = "True"
    /\ rlast.args.token \in id_issued
    /\ rlast.args.token.claims.iat < now
    /\ \E row \in id_tokens : row.token = rlast.args.token /\ rlast.bound.user = row.user

\* C16: validate_id_token returns a boolean for every presented token and every
\* state of the store, and False for a token that is absent, whose signature
\* fails or that has expired.
C16_ValidateIdTokenNeverRaises ==
    rlast.op = "validate_id_token" =>
        /\ rlast.result \in {"True", "False"}
        /\ (rlast.args.token = NoJwt \/ rlast.args.token \notin id_issued) =>
                rlast.result = "False"

\* C20: get_id_token completes for every grant type, response type and payload;
\* the token holds at_hash exactly when the grant type is authorization_code and
\* the payload has an access token, or the response type is 'id_token token' or
\* 'code id_token token', and c_hash exactly when the response type is
\* 'code id_token' or 'code id_token token'.
C20_HashClaims ==
    rlast.op = "get_id_token" =>
        /\ rlast.result = "token"
        /\ rlast.bound.id_token.claims.at_hash # 0 <=>
                \/ (rlast.args.grant_type = "authorization_code" /\ rlast.args.access_token # 0)
                \/ rlast.args.response_type \in {"id_token token", "code id_token token"}
        /\ rlast.bound.id_token.claims.c_hash # 0 <=>
                rlast.args.response_type \in {"code id_token", "code id_token token"}

(***************************************************************************)
(* Frame of validate_bearer_token (under SpecBearer)                       *)
(***************************************************************************)
\* C25: validate_bearer_token returns True only if, at return, an AccessToken
\* row holds the presented token string, has not expired and covers the
\* required scopes, and it then binds the application and the user of that row,
\* the required scopes and the row on the request; when it returns False it
\* binds nothing on the request.
C25_BearerBindsOnlyOnSuccess ==
    [][BearerCall =>
        /\ rlast'.result = "True" =>
            \E a \in access_tokens' :
                /\ a.token = rlast'.args.token
                /\ a.token # 0
                /\ now < a.expires
                /\ rlast'.args.scopes \subseteq ScopeSet(a.scope)
                /\ rlast'.bound = [client |-> a.application, user |-> a.user,
                                   scopes |-> rlast'.args.scopes, access_token |-> a.id]
        /\ rlast'.result = "False" => rlast'.bound = <<>>
        /\ rlast'.result \in {"True", "False"}
      ]_vars

\* An active response whose scope does not cover the required scope was stored
\* for the token of another server: the call returned False and bound nothing.
C25_Witness ==
    /\ rlast.op = "validate_bearer_token"
    /\ rlast.args = [token |-> 7, scopes |-> {"write"}]
    /\ rlast.remote = "active"
    /\ rlast.result = "False"
    /\ rlast.bound = <<>>
    /\ \E a \in access_tokens : a.token = 7 /\ a.scope = "read" /\ now < a.expires

(***************************************************************************)
(* What the client authentication hooks bind (under SpecAuth)              *)
(***************************************************************************)
\* C23: whenever authenticate_client returns True, request.client is an
\* Application whose client_id and client_secret are those presented on the
\* path that succeeded, the Basic header or the body; a body that names another
\* client_id is not accepted as the Application a failed Basic attempt named.
C23_AuthenticatedClientIsPresentedClient ==
    (last.op = "authenticate_client" /\ last.result = "True") =>
        /\ request.client # None
        /\ \/ /\ BasicWellFormed(request)
              /\ BasicClientId(request) = Application[request.client].client_id
              /\ BasicClientSecret(request) = Application[request.client].client_secret
           \/ /\ request.client_id = Application[request.client].client_id
              /\ request.client_secret = Application[request.client].client_secret

\* C24: after any sequence of hooks on one request, request.client is not an
\* Application that reports itself unusable.
C24_BoundClientIsUsable ==
    request.client # None => Application[request.client].usable

(***************************************************************************)
(* Concurrent rotation of one refresh token (under SpecRotate)             *)
(***************************************************************************)
\* The RefreshToken rows that the exchanges of the refresh token 2 have created.
RotationSuccessors == {rt \in refresh_tokens : rt.token # 2}

\* C22: under rotation, when two requests have validated the same refresh token
\* and both run save_bearer_token, at most one of them creates a new
\* AccessToken/RefreshToken pair.
C22_OneSuccessorPair == Cardinality(RotationSuccessors) <= 1

(***************************************************************************)
(* The introspection request in flight (under SpecIntrospect)              *)
(***************************************************************************)
\* C21: a validate_bearer_token call whose introspection request is in flight
\* eventually returns, whether the endpoint responds or not, and no row lock
\* and no open transaction is held while the request is in flight.
C21_IntrospectionBounded ==
    /\ IntrospectionInFlight ~> ~IntrospectionInFlight
    /\ [](IntrospectionInFlight => \A w \in Workers : tx[w] = NoTx)

=========================================================================
